---------------------------- MODULE Spec2Model ----------------------------
(***************************************************************************)
(* State-machine model of the CloudWatch log viewer of the email parser    *)
(* dashboard (src/components/cloudwatch-logs-viewer.tsx).                  *)
(*                                                                         *)
(* The component is a React function component.  Its state is the set of   *)
(* useState cells and the interval ref; its operations are its effects,    *)
(* its event handlers, the interval callback and the continuations of its  *)
(* asynchronous AWS calls.  Each handler runs to completion on the event   *)
(* loop, so each is one action; an awaited AWS call splits a handler into  *)
(* the step that issues the request and the step that consumes the reply.  *)
(* Handlers attached to buttons are re-created on every render and see the *)
(* current state; the interval callback is created once, by the click that *)
(* starts streaming, and keeps the values of that render.                  *)
(*                                                                         *)
(* Strings the code inspects character by character (log group names and   *)
(* the keyword lists) are tuples of one-character strings.  A log event is *)
(* the pair of fields the component reads: timestamp and message.          *)
(***************************************************************************)
EXTENDS Integers, Sequences, FiniteSets, TLC

(***************************************************************************)
(* Bounds of the model.                                                    *)
(***************************************************************************)
MaxTs == 2          \* timestamps of log events range over 1..MaxTs
MaxResp == 2        \* events in one FilterLogEvents response
MaxInFlight == 2    \* FilterLogEvents requests outstanding at once
MaxGroups == 2      \* log groups in one DescribeLogGroups response

VARIABLES
  logs,              \* useState<FilteredLogEvent[]>([])
  isLoading,         \* useState(false)
  error,             \* useState<string | null>(null)
  isStreaming,       \* useState(false)
  selectedLogGroup,  \* useState<string>("")
  logGroups,         \* useState<LogGroup[]>([])
  allLogGroups,      \* useState<LogGroup[]>([])
  showAllGroups,     \* useState(false)
  client,            \* useState<CloudWatchLogsClient | null>(null): TRUE iff set
  intervalRef,       \* useRef<NodeJS.Timeout | null>(null): 0 is null
  timers,            \* the intervals armed in the event loop
  inflight,          \* FilterLogEvents requests awaiting their response
  groupsReq,         \* position of the fetchLogGroups effect
  clientEffect,      \* TRUE once the client initialisation effect has run
  mounted,           \* FALSE once the component has been unmounted
  lastOp,            \* history: the handler that ran last
  lastReq,           \* history: the request that handler issued or consumed
  lastResp,          \* history: the response that handler merged
  isUploading,       \* EmailUploadForm: useState(false)
  uploadStatus,      \* EmailUploadForm: useState('idle')
  uploadMessage,     \* EmailUploadForm: useState('')
  selectedFile,      \* EmailUploadForm: useState<File | null>(null)
  uploadedFileId,    \* EmailUploadWrapper: useState<string | null>(null)
  puts,              \* PUT requests awaiting their response
  now,               \* the value Date.now() returns
  lastFile,          \* history: the file handed to the last selection
  lastCallback,      \* history: the callback the last upload step invoked
  suppliers,         \* ApiResultsViewer: useState<Supplier[]>([])
  emailMatches,      \* ApiResultsViewer: useState({}), "null" for no entry
  apiIsLoading,      \* ApiResultsViewer: isLoading, useState(false)
  apiError,          \* ApiResultsViewer: error, useState(null)
  lastFetch,         \* ApiResultsViewer: useState<Date | null>(null): 0 is null
  dataLoaded,        \* ApiResultsViewer: useState(false)
  activeTab,         \* ApiResultsViewer: useState('suggestions')
  apiCalls,          \* fetchAllData calls awaiting their two fetches
  apiEffect,         \* TRUE once the effect of the first render has run
  feedbacks,         \* feedback POST requests awaiting their response
  lastAlert,         \* history: the alert the last step showed
  lastFeedback,      \* history: how the feedback POST of the last step ended
  lastSuggest,       \* history: how the suggestion POST of the last step ended
  formatInput,       \* the message of the log line rendered last
  formatted          \* const formatted = formatLogMessage(log.message)

vars == << logs, isLoading, error, isStreaming, selectedLogGroup, logGroups,
           allLogGroups, showAllGroups, client, intervalRef, timers,
           inflight, groupsReq, clientEffect, mounted, lastOp, lastReq,
           lastResp, isUploading, uploadStatus, uploadMessage, selectedFile,
           uploadedFileId, puts, now, lastFile, lastCallback, suppliers,
           emailMatches, apiIsLoading, apiError, lastFetch, dataLoaded,
           activeTab, apiCalls, apiEffect, feedbacks, lastAlert,
           lastFeedback, lastSuggest, formatInput, formatted >>

\* what rendering a log line computes
renderVars == << formatInput, formatted >>

\* the state of the upload form and of the wrapper
uploadVars == << isUploading, uploadStatus, uploadMessage, selectedFile,
                 uploadedFileId, puts, now, lastFile, lastCallback >>

\* the state of the dashboard
apiVars == << suppliers, emailMatches, apiIsLoading, apiError, lastFetch,
              dataLoaded, activeTab, apiCalls, apiEffect, feedbacks,
              lastAlert, lastFeedback, lastSuggest >>

\* the state outside the log viewer
otherVars == << uploadVars, apiVars, renderVars >>

\* the state of the log viewer
viewerVars == << logs, isLoading, error, isStreaming, selectedLogGroup,
                 logGroups, allLogGroups, showAllGroups, client, intervalRef,
                 timers, inflight, groupsReq, clientEffect, mounted, lastReq,
                 lastResp >>

(***************************************************************************)
(* Strings as character tuples.                                            *)
(***************************************************************************)
UpperChars ==
  <<"A","B","C","D","E","F","G","H","I","J","K","L","M","N","O","P","Q","R","S","T","U","V","W","X","Y","Z">>

LowerChars ==
  <<"a","b","c","d","e","f","g","h","i","j","k","l","m","n","o","p","q","r","s","t","u","v","w","x","y","z">>

\* String.prototype.toLowerCase
ToLowerCase(s) ==
  [i \in 1..Len(s) |->
     IF \E k \in 1..Len(UpperChars) : UpperChars[k] = s[i]
       THEN LowerChars[CHOOSE k \in 1..Len(UpperChars) : UpperChars[k] = s[i]]
       ELSE s[i]]

\* the positions at which sub occurs in s
Occurrences(s, sub) ==
  {i \in 1..(Len(s) - Len(sub) + 1) : SubSeq(s, i, i + Len(sub) - 1) = sub}

\* String.prototype.includes
Includes(s, sub) == Occurrences(s, sub) # {}

\* String.prototype.replace(pattern, "") with a string pattern: the first
\* occurrence is removed
RemoveFirst(s, sub) ==
  IF Occurrences(s, sub) = {} THEN s
  ELSE LET i == CHOOSE j \in Occurrences(s, sub) :
                   \A k \in Occurrences(s, sub) : j <= k
       IN SubSeq(s, 1, i - 1) \o SubSeq(s, i + Len(sub), Len(s))

EmptyString == << >>

LambdaPrefix == <<"/","a","w","s","/","l","a","m","b","d","a","/">>

emailParsingKeywords ==
  << <<"e","m","a","i","l","-","p","a","r","s","e","r">>,
     <<"e","m","a","i","l","-","p","a","r","s","i","n","g">>,
     <<"e","m","a","i","l","-","p","r","o","c","e","s","s","o","r">>,
     <<"s","u","p","p","l","i","e","r","-","m","a","t","c","h","e","r">>,
     <<"e","m","a","i","l","p","a","r","s","e","r">>,
     <<"e","m","a","i","l","p","r","o","c","e","s","s","o","r">>,
     <<"s","u","p","p","l","i","e","r","M","a","t","c","h","e","r">>,
     <<"S","u","p","p","l","i","e","r","M","a","t","c","h","e","r">>,
     <<"B","u","c","k","e","t","N","o","t","i","f","i","c","a","t","i","o","n","s">>,
     <<"b","u","c","k","e","t","-","n","o","t","i","f","i","c","a","t","i","o","n","s">>,
     <<"E","m","a","i","l","P","a","r","s","e","r">>,
     <<"E","m","a","i","l","P","r","o","c","e","s","s","i","n","g">>,
     <<"S","u","p","p","l","i","e","r","M","a","t","c","h","i","n","g">> >>

priorityOrder ==
  << <<"e","m","a","i","l","-","p","a","r","s","e","r">>,
     <<"e","m","a","i","l","p","a","r","s","e","r">>,
     <<"e","m","a","i","l","-","p","r","o","c","e","s","s","o","r">>,
     <<"e","m","a","i","l","p","r","o","c","e","s","s","o","r">> >>

(***************************************************************************)
(* The inputs of the model: what the AWS calls can answer.                 *)
(***************************************************************************)
\* names of Lambda log groups the account may hold
GroupNames ==
  { LambdaPrefix \o <<"e","m","a","i","l","-","p","a","r","s","e","r">>,
    LambdaPrefix \o <<"a","u","t","h">> }

RECURSIVE SeqsUpTo(_, _)
\* the sequences over S of length at most n
SeqsUpTo(S, n) ==
  IF n = 0 THEN { << >> }
  ELSE LET shorter == SeqsUpTo(S, n - 1)
       IN shorter \cup {Append(s, x) : s \in shorter, x \in S}

Range(s) == {s[i] : i \in 1..Len(s)}

\* DescribeLogGroups answers with distinct groups
GroupResponses ==
  {s \in SeqsUpTo(GroupNames, MaxGroups) : Cardinality(Range(s)) = Len(s)}

Messages == {"a", "b"}

\* two events share timestamp 1 and differ in their message; the later
\* timestamps carry one event each
LogEvents ==
  {e \in [timestamp : 1..MaxTs, message : Messages] :
     e.message = "a" \/ e.timestamp = 1}

\* FilterLogEvents answers in any order and may repeat an event
LogResponses == SeqsUpTo(LogEvents, MaxResp)

NoError == "null"
NoReq == [origin |-> "none", append |-> FALSE, logGroupName |-> EmptyString]

\* the test emails of the dashboard
TEST_EMAILS == {"sewp-nutanix-rfq", "nasa-networking-rfq", "gsa-generic-rfi"}

\* lastAlert when the last step showed no alert
NoAlert == "none"

\* selectedFile when it is null
NoFile == [name |-> EmptyString, size |-> 0]

\* lastCallback when the last step was no upload response
NoUpload ==
  [outcome |-> "none", callback |-> "none", fileId |-> EmptyString,
   timestamp |-> 0, before |-> EmptyString]

(***************************************************************************)
(* The merge of fetchLogs.                                                 *)
(***************************************************************************)
\* the comparator's key, (a.timestamp || 0)
SortKey(log) == IF log.timestamp = 0 THEN 0 ELSE log.timestamp

\* s is sorted; log goes behind every element that does not compare greater
InsertSorted(s, log) ==
  LET k == Cardinality({i \in 1..Len(s) : SortKey(s[i]) - SortKey(log) <= 0})
  IN SubSeq(s, 1, k) \o << log >> \o SubSeq(s, k + 1, Len(s))

RECURSIVE SortByTimestamp(_)
\* Array.prototype.sort((a, b) => (a.timestamp || 0) - (b.timestamp || 0)),
\* which is stable
SortByTimestamp(s) ==
  IF s = << >> THEN << >>
  ELSE InsertSorted(SortByTimestamp(SubSeq(s, 1, Len(s) - 1)), s[Len(s)])

\* self.findIndex(l => l.timestamp === log.timestamp && l.message === log.message)
FindIndex(self, log) ==
  LET hits == {i \in 1..Len(self) :
                 self[i].timestamp = log.timestamp /\ self[i].message = log.message}
  IN IF hits = {} THEN 0 ELSE CHOOSE i \in hits : \A j \in hits : i <= j

RECURSIVE FilterFirst(_, _)
\* the elements of self[1..n] that are the first of their identity in self
FilterFirst(self, n) ==
  IF n = 0 THEN << >>
  ELSE IF FindIndex(self, self[n]) = n
         THEN Append(FilterFirst(self, n - 1), self[n])
         ELSE FilterFirst(self, n - 1)

\* UniqueLogs without the filter: every element is kept
UniqueLogs_KeepAll(combinedLogs) == combinedLogs

\* combinedLogs.filter((log, index, self) => index === self.findIndex(...))
UniqueLogs(combinedLogs) == FilterFirst(combinedLogs, Len(combinedLogs))

\* the updater passed to setLogs when append is true
AppendMerge(prevLogs, newLogs) ==
  SortByTimestamp(UniqueLogs(prevLogs \o newLogs))

\* ReplaceMerge without the sort: the response is stored as it arrived
ReplaceMerge_Unsorted(prevLogs, newLogs) == newLogs

\* the value passed to setLogs when append is false
ReplaceMerge(prevLogs, newLogs) == SortByTimestamp(newLogs)

(***************************************************************************)
(* Log group discovery.                                                    *)
(***************************************************************************)
\* response.logGroups.map(...): name, display name, isActive
MapGroup(name) ==
  [logGroupName |-> name,
   displayName |-> RemoveFirst(name, LambdaPrefix),
   isActive |-> FALSE]

\* allGroups.filter(...) predicate
IsEmailParsingGroup(group) ==
  \E k \in 1..Len(emailParsingKeywords) :
    Includes(ToLowerCase(group.displayName), ToLowerCase(emailParsingKeywords[k]))

RECURSIVE FilterGroups(_)
FilterGroups(groups) ==
  IF groups = << >> THEN << >>
  ELSE LET rest == FilterGroups(SubSeq(groups, 1, Len(groups) - 1))
           g == groups[Len(groups)]
       IN IF IsEmailParsingGroup(g) THEN Append(rest, g) ELSE rest

\* filteredGroups.find(g => g.displayName.toLowerCase().includes(priority)):
\* the index of the first match, 0 when there is none
FindByPriority(filteredGroups, priority) ==
  LET hits == {i \in 1..Len(filteredGroups) :
                 Includes(ToLowerCase(filteredGroups[i].displayName), priority)}
  IN IF hits = {} THEN 0 ELSE CHOOSE i \in hits : \A j \in hits : i <= j

\* AutoSelect that takes the first group matching any priority keyword,
\* whatever the keyword's place in priorityOrder
AutoSelect_AnyPriority(filteredGroups) ==
  LET hits == {i \in 1..Len(filteredGroups) :
                 \E p \in 1..Len(priorityOrder) :
                   FindByPriority(<< filteredGroups[i] >>, priorityOrder[p]) # 0}
  IN IF hits # {}
       THEN filteredGroups[CHOOSE i \in hits : \A j \in hits : i <= j].logGroupName
     ELSE IF Len(filteredGroups) > 0 THEN filteredGroups[1].logGroupName
     ELSE EmptyString

\* the auto-selection: the loop over priorityOrder, then the fallback to
\* the first filtered group; EmptyString when nothing is selected
AutoSelect(filteredGroups) ==
  LET matching == {p \in 1..Len(priorityOrder) :
                     FindByPriority(filteredGroups, priorityOrder[p]) # 0}
  IN IF matching # {}
       THEN LET p == CHOOSE q \in matching : \A r \in matching : q <= r
            IN filteredGroups[FindByPriority(filteredGroups, priorityOrder[p])].logGroupName
     ELSE IF Len(filteredGroups) > 0 THEN filteredGroups[1].logGroupName
     ELSE EmptyString

(***************************************************************************)
(* Initial state: the values of the useState and useRef calls.             *)
(***************************************************************************)
Init ==
  /\ logs = << >>
  /\ isLoading = FALSE
  /\ error = NoError
  /\ isStreaming = FALSE
  /\ selectedLogGroup = EmptyString
  /\ logGroups = << >>
  /\ allLogGroups = << >>
  /\ showAllGroups = FALSE
  /\ client = FALSE
  /\ intervalRef = 0
  /\ timers = {}
  /\ inflight = << >>
  /\ groupsReq = "idle"
  /\ clientEffect = FALSE
  /\ mounted = TRUE
  /\ lastOp = "init"
  /\ lastReq = NoReq
  /\ lastResp = << >>
  /\ isUploading = FALSE
  /\ uploadStatus = "idle"
  /\ uploadMessage = ""
  /\ selectedFile = NoFile
  /\ uploadedFileId = EmptyString
  /\ puts = << >>
  /\ now = 1
  /\ lastFile = NoFile
  /\ lastCallback = NoUpload
  /\ suppliers = << >>
  /\ emailMatches = [e \in TEST_EMAILS |-> "null"]
  /\ apiIsLoading = FALSE
  /\ apiError = NoError
  /\ lastFetch = 0
  /\ dataLoaded = FALSE
  /\ activeTab = "suggestions"
  /\ apiCalls = << >>
  /\ apiEffect = FALSE
  /\ feedbacks = << >>
  /\ lastAlert = NoAlert
  /\ lastFeedback = "none"
  /\ lastSuggest = "none"
  /\ formatInput = EmptyString
  /\ formatted = [type |-> "default", message |-> EmptyString]


(***************************************************************************)
(* Effects that run after mount.                                           *)
(***************************************************************************)
\* the effect that constructs the AWS client; the constructor may throw
InitClient ==
  /\ mounted
  /\ ~clientEffect
  /\ clientEffect' = TRUE
  /\ \/ /\ client' = TRUE
        /\ error' = error
     \/ /\ client' = client
        /\ error' = "Failed to initialize AWS client"
  /\ lastOp' = "initClient"
  /\ lastReq' = NoReq
  /\ lastResp' = << >>
  /\ UNCHANGED << logs, isLoading, isStreaming, selectedLogGroup, logGroups,
                  allLogGroups, showAllGroups, intervalRef, timers, inflight,
                  groupsReq, mounted >>
  /\ UNCHANGED otherVars

\* the effect on [client]: fetchLogGroups up to its await
FetchLogGroups ==
  /\ mounted
  /\ client
  /\ groupsReq = "idle"
  /\ groupsReq' = "pending"
  /\ lastOp' = "fetchLogGroups"
  /\ lastReq' = NoReq
  /\ lastResp' = << >>
  /\ UNCHANGED << logs, isLoading, error, isStreaming, selectedLogGroup,
                  logGroups, allLogGroups, showAllGroups, client, intervalRef,
                  timers, inflight, clientEffect, mounted >>
  /\ UNCHANGED otherVars

\* fetchLogGroups after its await, the call having answered with names
FetchLogGroupsResponse(names) ==
  LET allGroups == [i \in 1..Len(names) |-> MapGroup(names[i])]
      filteredGroups == FilterGroups(allGroups)
      selectedGroup == AutoSelect(filteredGroups)
  IN /\ groupsReq = "pending"
     /\ groupsReq' = "done"
     /\ IF mounted
          THEN /\ allLogGroups' = allGroups
               /\ logGroups' = filteredGroups
               /\ selectedLogGroup' =
                    IF selectedGroup # EmptyString THEN selectedGroup
                    ELSE selectedLogGroup
               /\ error' = IF Len(filteredGroups) = 0
                             THEN "No email parsing log groups found"
                             ELSE error
          ELSE UNCHANGED << allLogGroups, logGroups, selectedLogGroup, error >>
     /\ lastOp' = "groupsResponse"
     /\ lastReq' = NoReq
     /\ lastResp' = << >>
     /\ UNCHANGED << logs, isLoading, isStreaming, showAllGroups, client,
                     intervalRef, timers, inflight, clientEffect, mounted >>
     /\ UNCHANGED otherVars

\* FetchLogGroupsFail that schedules the effect again
FetchLogGroupsFail_Retries ==
  /\ groupsReq = "pending"
  /\ groupsReq' = "idle"
  /\ error' = IF mounted THEN "Failed to fetch log groups" ELSE error
  /\ lastOp' = "groupsFail"
  /\ lastReq' = NoReq
  /\ lastResp' = << >>
  /\ UNCHANGED << logs, isLoading, isStreaming, selectedLogGroup, logGroups,
                  allLogGroups, showAllGroups, client, intervalRef, timers,
                  inflight, clientEffect, mounted >>
  /\ UNCHANGED otherVars

\* fetchLogGroups after its await, the call having thrown
FetchLogGroupsFail ==
  /\ groupsReq = "pending"
  /\ groupsReq' = "failed"
  /\ error' = IF mounted THEN "Failed to fetch log groups" ELSE error
  /\ lastOp' = "groupsFail"
  /\ lastReq' = NoReq
  /\ lastResp' = << >>
  /\ UNCHANGED << logs, isLoading, isStreaming, selectedLogGroup, logGroups,
                  allLogGroups, showAllGroups, client, intervalRef, timers,
                  inflight, clientEffect, mounted >>
  /\ UNCHANGED otherVars

(***************************************************************************)
(* fetchLogs.                                                              *)
(***************************************************************************)
\* fetchLogs(append) up to its await, as seen by a closure that holds
\* client c and selectedLogGroup g; setState calls of an unmounted
\* component have no effect
FetchLogs(append, c, g, origin) ==
  IF ~c \/ g = EmptyString
    THEN /\ UNCHANGED << isLoading, error, inflight >>
         /\ lastReq' = NoReq
    ELSE /\ isLoading' = IF mounted THEN TRUE ELSE isLoading
         /\ error' = IF mounted THEN NoError ELSE error
         /\ inflight' = Append(inflight, [origin |-> origin, append |-> append,
                                          logGroupName |-> g])
         /\ lastReq' = [origin |-> origin, append |-> append, logGroupName |-> g]

RemoveAt(s, i) == SubSeq(s, 1, i - 1) \o SubSeq(s, i + 1, Len(s))

\* fetchLogs after its await, the call having answered with newLogs
FetchLogsResponse(i, newLogs) ==
  /\ i \in 1..Len(inflight)
  /\ inflight' = RemoveAt(inflight, i)
  /\ IF mounted
       THEN /\ logs' = IF inflight[i].append
                         THEN AppendMerge(logs, newLogs)
                         ELSE ReplaceMerge(logs, newLogs)
            /\ isLoading' = FALSE
            /\ lastOp' = "merged"
       ELSE /\ UNCHANGED << logs, isLoading >>
            /\ lastOp' = "afterUnmount"
  /\ lastReq' = inflight[i]
  /\ lastResp' = newLogs
  /\ UNCHANGED << error, isStreaming, selectedLogGroup, logGroups,
                  allLogGroups, showAllGroups, client, intervalRef, timers,
                  groupsReq, clientEffect, mounted >>
  /\ UNCHANGED otherVars

\* FetchLogsFail with a catch block that also stops streaming
FetchLogsFail_StopsStreaming(i) ==
  /\ i \in 1..Len(inflight)
  /\ inflight' = RemoveAt(inflight, i)
  /\ IF mounted
       THEN /\ error' = "Failed to fetch logs"
            /\ isLoading' = FALSE
            /\ isStreaming' = FALSE
            /\ timers' = {t \in timers : t.id # intervalRef}
            /\ intervalRef' = 0
            /\ lastOp' = "fetchFail"
       ELSE /\ UNCHANGED << error, isLoading, isStreaming, timers, intervalRef >>
            /\ lastOp' = "afterUnmount"
  /\ lastReq' = inflight[i]
  /\ lastResp' = << >>
  /\ UNCHANGED << logs, selectedLogGroup, logGroups, allLogGroups,
                  showAllGroups, client, groupsReq, clientEffect, mounted >>
  /\ UNCHANGED otherVars

\* FetchLogsFail with a catch block that also empties the logs
FetchLogsFail_ClearsLogs(i) ==
  /\ i \in 1..Len(inflight)
  /\ inflight' = RemoveAt(inflight, i)
  /\ IF mounted
       THEN /\ error' = "Failed to fetch logs"
            /\ isLoading' = FALSE
            /\ logs' = << >>
            /\ lastOp' = "fetchFail"
       ELSE /\ UNCHANGED << error, isLoading, logs >>
            /\ lastOp' = "afterUnmount"
  /\ lastReq' = inflight[i]
  /\ lastResp' = << >>
  /\ UNCHANGED << isStreaming, selectedLogGroup, logGroups, allLogGroups,
                  showAllGroups, client, intervalRef, timers, groupsReq,
                  clientEffect, mounted >>
  /\ UNCHANGED otherVars

\* fetchLogs after its await, the call having thrown
FetchLogsFail(i) ==
  /\ i \in 1..Len(inflight)
  /\ inflight' = RemoveAt(inflight, i)
  /\ IF mounted
       THEN /\ error' = "Failed to fetch logs"
            /\ isLoading' = FALSE
            /\ lastOp' = "fetchFail"
       ELSE /\ UNCHANGED << error, isLoading >>
            /\ lastOp' = "afterUnmount"
  /\ lastReq' = inflight[i]
  /\ lastResp' = << >>
  /\ UNCHANGED << logs, isStreaming, selectedLogGroup, logGroups,
                  allLogGroups, showAllGroups, client, intervalRef, timers,
                  groupsReq, clientEffect, mounted >>
  /\ UNCHANGED otherVars

(***************************************************************************)
(* Streaming.                                                              *)
(***************************************************************************)
TimerIds == {t.id : t \in timers}

\* the handle setInterval returns: one no armed interval has
NewTimerId ==
  CHOOSE n \in 1..(Cardinality(timers) + 2) :
    /\ n \notin TimerIds
    /\ n # intervalRef
    /\ \A m \in 1..(n - 1) : m \in TimerIds \/ m = intervalRef

\* clearInterval(id)
ClearInterval(id) == {t \in timers : t.id # id}

\* StopStreaming that forgets setIsStreaming(false)
StopStreaming_KeepsFlag ==
  /\ isStreaming
  /\ IF intervalRef # 0
       THEN /\ timers' = ClearInterval(intervalRef)
            /\ intervalRef' = 0
       ELSE UNCHANGED << timers, intervalRef >>
  /\ isStreaming' = isStreaming
  /\ lastOp' = "stop"
  /\ lastReq' = NoReq
  /\ UNCHANGED << isLoading, error, inflight >>

\* StopStreaming that forgets clearInterval
StopStreaming_KeepsInterval ==
  /\ isStreaming
  /\ intervalRef' = 0
  /\ timers' = timers
  /\ isStreaming' = FALSE
  /\ lastOp' = "stop"
  /\ lastReq' = NoReq
  /\ UNCHANGED << isLoading, error, inflight >>

\* toggleStreaming, isStreaming being true
StopStreaming ==
  /\ isStreaming
  /\ IF intervalRef # 0
       THEN /\ timers' = ClearInterval(intervalRef)
            /\ intervalRef' = 0
       ELSE UNCHANGED << timers, intervalRef >>
  /\ isStreaming' = FALSE
  /\ lastOp' = "stop"
  /\ lastReq' = NoReq
  /\ UNCHANGED << isLoading, error, inflight >>

\* StartStreaming whose initial fetch is fetchLogs(true)
StartStreaming_Append ==
  /\ ~isStreaming
  /\ Len(inflight) < MaxInFlight
  /\ FetchLogs(TRUE, client, selectedLogGroup, "start")
  /\ timers' = timers \cup {[id |-> NewTimerId, client |-> client,
                             selectedLogGroup |-> selectedLogGroup]}
  /\ intervalRef' = NewTimerId
  /\ isStreaming' = TRUE
  /\ lastOp' = "start"

\* toggleStreaming, isStreaming being false: the interval callback keeps
\* the fetchLogs of this render, hence this client and selectedLogGroup
StartStreaming ==
  /\ ~isStreaming
  /\ Len(inflight) < MaxInFlight
  /\ FetchLogs(FALSE, client, selectedLogGroup, "start")
  /\ timers' = timers \cup {[id |-> NewTimerId, client |-> client,
                             selectedLogGroup |-> selectedLogGroup]}
  /\ intervalRef' = NewTimerId
  /\ isStreaming' = TRUE
  /\ lastOp' = "start"

\* the Start/Stop button; a disabled button delivers no click
ToggleStreaming ==
  /\ mounted
  /\ ~(selectedLogGroup = EmptyString \/ isLoading)
  /\ \/ StopStreaming
     \/ StartStreaming
  /\ lastResp' = << >>
  /\ UNCHANGED << logs, selectedLogGroup, logGroups, allLogGroups,
                  showAllGroups, client, groupsReq, clientEffect, mounted >>
  /\ UNCHANGED otherVars

\* the interval callback, () => fetchLogs(true), of an armed interval
Tick ==
  \E t \in timers :
    /\ Len(inflight) < MaxInFlight
    /\ FetchLogs(TRUE, t.client, t.selectedLogGroup, "tick")
    /\ lastOp' = "tick"
    /\ lastResp' = << >>
    /\ UNCHANGED << logs, isStreaming, selectedLogGroup, logGroups,
                    allLogGroups, showAllGroups, client, intervalRef, timers,
                    groupsReq, clientEffect, mounted >>
    /\ UNCHANGED otherVars

\* Unmount without the cleanup effect
Unmount_NoCleanup ==
  /\ mounted
  /\ mounted' = FALSE
  /\ timers' = timers
  /\ lastOp' = "unmount"
  /\ lastReq' = NoReq
  /\ lastResp' = << >>
  /\ UNCHANGED << logs, isLoading, error, isStreaming, selectedLogGroup,
                  logGroups, allLogGroups, showAllGroups, client, intervalRef,
                  inflight, groupsReq, clientEffect >>
  /\ UNCHANGED otherVars

\* the cleanup of the effect with no dependencies
Unmount ==
  /\ mounted
  /\ mounted' = FALSE
  /\ timers' = IF intervalRef # 0 THEN ClearInterval(intervalRef) ELSE timers
  /\ lastOp' = "unmount"
  /\ lastReq' = NoReq
  /\ lastResp' = << >>
  /\ UNCHANGED << logs, isLoading, error, isStreaming, selectedLogGroup,
                  logGroups, allLogGroups, showAllGroups, client, intervalRef,
                  inflight, groupsReq, clientEffect >>
  /\ UNCHANGED otherVars

(***************************************************************************)
(* The other controls.                                                     *)
(***************************************************************************)
\* the groups the select offers
VisibleGroups == IF showAllGroups THEN allLogGroups ELSE logGroups

\* onChange of the select: the user picks another option
SelectLogGroup(value) ==
  /\ mounted
  /\ ~isLoading
  /\ \/ value = EmptyString
     \/ \E i \in 1..Len(VisibleGroups) : VisibleGroups[i].logGroupName = value
  /\ value # selectedLogGroup
  /\ selectedLogGroup' = value
  /\ lastOp' = "select"
  /\ lastReq' = NoReq
  /\ lastResp' = << >>
  /\ UNCHANGED << logs, isLoading, error, isStreaming, logGroups,
                  allLogGroups, showAllGroups, client, intervalRef, timers,
                  inflight, groupsReq, clientEffect, mounted >>
  /\ UNCHANGED otherVars

\* the Show All / Show Filtered button
ToggleShowAllGroups ==
  /\ mounted
  /\ Len(allLogGroups) > 0
  /\ showAllGroups' = ~showAllGroups
  /\ lastOp' = "showAll"
  /\ lastReq' = NoReq
  /\ lastResp' = << >>
  /\ UNCHANGED << logs, isLoading, error, isStreaming, selectedLogGroup,
                  logGroups, allLogGroups, client, intervalRef, timers,
                  inflight, groupsReq, clientEffect, mounted >>
  /\ UNCHANGED otherVars

\* the Refresh button, onClick={() => fetchLogs()}
Refresh ==
  /\ mounted
  /\ ~(selectedLogGroup = EmptyString \/ isLoading)
  /\ Len(inflight) < MaxInFlight
  /\ FetchLogs(FALSE, client, selectedLogGroup, "refresh")
  /\ lastOp' = "refresh"
  /\ lastResp' = << >>
  /\ UNCHANGED << logs, isStreaming, selectedLogGroup, logGroups,
                  allLogGroups, showAllGroups, client, intervalRef, timers,
                  groupsReq, clientEffect, mounted >>
  /\ UNCHANGED otherVars

\* the Clear Logs button, onClick={() => setLogs([])}
ClearLogs ==
  /\ mounted
  /\ logs' = << >>
  /\ lastOp' = "clear"
  /\ lastReq' = NoReq
  /\ lastResp' = << >>
  /\ UNCHANGED << isLoading, error, isStreaming, selectedLogGroup, logGroups,
                  allLogGroups, showAllGroups, client, intervalRef, timers,
                  inflight, groupsReq, clientEffect, mounted >>
  /\ UNCHANGED otherVars

(***************************************************************************)
(* The upload form (EmailUploadForm) and its wrapper (EmailUploadWrapper). *)
(***************************************************************************)
MaxNow == 2         \* Date.now() ranges over 1..MaxNow

MaxFileSize == 10 * 1024 * 1024

\* String.prototype.endsWith
EndsWith(s, suffix) ==
  /\ Len(s) >= Len(suffix)
  /\ SubSeq(s, Len(s) - Len(suffix) + 1, Len(s)) = suffix

\* s.split('.').pop(): what follows the last dot, all of s if it has none
SplitPop(s) ==
  LET dots == {i \in 1..Len(s) : s[i] = "."}
  IN IF dots = {} THEN s
     ELSE SubSeq(s, (CHOOSE i \in dots : \A j \in dots : j <= i) + 1, Len(s))

DecimalDigits == <<"0","1","2","3","4","5","6","7","8","9">>

\* the decimal numeral a template literal makes of a non-negative integer
RECURSIVE NumberToString(_)
NumberToString(n) ==
  IF n < 10 THEN << DecimalDigits[n + 1] >>
  ELSE NumberToString(n \div 10) \o << DecimalDigits[(n % 10) + 1] >>

EmlExtension == <<".","e","m","l">>
MsgExtension == <<".","m","s","g">>
TxtExtension == <<".","t","x","t">>

\* the files the user may pick or drop
Files ==
  { [name |-> <<"a",".","e","m","l">>, size |-> 1],
    [name |-> <<"b",".","m","s","g">>, size |-> MaxFileSize],
    [name |-> <<"c",".","t","x","t">>, size |-> 1],
    [name |-> <<"r",".","p","d","f">>, size |-> 1],
    [name |-> <<"d",".","e","m","l">>, size |-> MaxFileSize + 1],
    [name |-> <<"E",".","E","M","L">>, size |-> 1],
    [name |-> <<"e","m","l">>, size |-> 1] }

\* what the PUT can end in: a 2xx response, another response, a rejection
PutOutcomes == {"ok", "notOk", "reject"}

\* the validation of handleFileSelect and handleDrop without the size test
ValidationError_NoSizeCheck(file) ==
  IF /\ ~EndsWith(file.name, EmlExtension)
     /\ ~EndsWith(file.name, MsgExtension)
     /\ ~EndsWith(file.name, TxtExtension)
    THEN "Please select an email file (.eml, .msg, or .txt)"
  ELSE ""

\* the validation of handleFileSelect and handleDrop: the message of the
\* test that rejects the file, '' if none does
ValidationError(file) ==
  IF /\ ~EndsWith(file.name, EmlExtension)
     /\ ~EndsWith(file.name, MsgExtension)
     /\ ~EndsWith(file.name, TxtExtension)
    THEN "Please select an email file (.eml, .msg, or .txt)"
  ELSE IF file.size > MaxFileSize
    THEN "File size must be less than 10MB"
  ELSE ""

\* the body shared by handleFileSelect and handleDrop
SelectFile(file) ==
  /\ IF ValidationError(file) # ""
       THEN /\ uploadStatus' = "error"
            /\ uploadMessage' = ValidationError(file)
            /\ UNCHANGED selectedFile
       ELSE /\ selectedFile' = file
            /\ uploadStatus' = "idle"
            /\ uploadMessage' = ""
  /\ lastFile' = file
  /\ lastCallback' = NoUpload
  /\ UNCHANGED << isUploading, uploadedFileId, puts, now >>
  /\ UNCHANGED << viewerVars, apiVars, renderVars >>

\* the hidden file input, opened by the Browse Files button
HandleFileSelect(file) ==
  /\ ~isUploading
  /\ SelectFile(file)
  /\ lastOp' = "fileSelect"

\* a file dropped on the upload area
HandleDrop(file) ==
  /\ SelectFile(file)
  /\ lastOp' = "drop"

\* the Remove button next to the selected file
RemoveFile ==
  /\ selectedFile # NoFile
  /\ selectedFile' = NoFile
  /\ lastOp' = "remove"
  /\ lastFile' = NoFile
  /\ lastCallback' = NoUpload
  /\ UNCHANGED << isUploading, uploadStatus, uploadMessage, uploadedFileId,
                  puts, now >>
  /\ UNCHANGED << viewerVars, apiVars, renderVars >>

\* handleUpload up to its await without setIsUploading(true)
HandleUpload_NoFlag ==
  /\ ~(selectedFile = NoFile \/ isUploading)
  /\ isUploading' = isUploading
  /\ uploadStatus' = "idle"
  /\ uploadMessage' = ""
  /\ LET timestamp == now
         fileExtension == SplitPop(selectedFile.name)
         filename == <<"e","m","a","i","l","-">> \o NumberToString(timestamp)
                       \o <<".">> \o fileExtension
     IN puts' = Append(puts, [timestamp |-> timestamp,
                              fileExtension |-> fileExtension,
                              filename |-> filename,
                              body |-> selectedFile])
  /\ lastOp' = "upload"
  /\ lastFile' = NoFile
  /\ lastCallback' = NoUpload
  /\ UNCHANGED << selectedFile, uploadedFileId, now >>
  /\ UNCHANGED << viewerVars, apiVars, renderVars >>

\* handleUpload up to its await
HandleUpload ==
  /\ ~(selectedFile = NoFile \/ isUploading)
  /\ isUploading' = TRUE
  /\ uploadStatus' = "idle"
  /\ uploadMessage' = ""
  /\ LET timestamp == now
         fileExtension == SplitPop(selectedFile.name)
         filename == <<"e","m","a","i","l","-">> \o NumberToString(timestamp)
                       \o <<".">> \o fileExtension
     IN puts' = Append(puts, [timestamp |-> timestamp,
                              fileExtension |-> fileExtension,
                              filename |-> filename,
                              body |-> selectedFile])
  /\ lastOp' = "upload"
  /\ lastFile' = NoFile
  /\ lastCallback' = NoUpload
  /\ UNCHANGED << selectedFile, uploadedFileId, now >>
  /\ UNCHANGED << viewerVars, apiVars, renderVars >>

\* handleUpload after its await that takes every response for a success
HandleUploadResponse_IgnoresStatus(i, outcome) ==
  /\ i \in 1..Len(puts)
  /\ puts' = RemoveAt(puts, i)
  /\ IF outcome # "reject"
       THEN LET fileId == RemoveFirst(puts[i].filename,
                                      <<".">> \o puts[i].fileExtension)
            IN /\ uploadStatus' = "success"
               /\ uploadMessage' = "Email uploaded successfully! Processing will begin automatically."
               /\ uploadedFileId' = fileId
               /\ selectedFile' = NoFile
               /\ lastCallback' = [outcome |-> outcome,
                                   callback |-> "onUploadSuccess",
                                   fileId |-> fileId,
                                   timestamp |-> puts[i].timestamp,
                                   before |-> uploadedFileId]
       ELSE /\ uploadStatus' = "error"
            /\ uploadMessage' = "Failed to fetch"
            /\ lastCallback' = [outcome |-> outcome,
                                callback |-> "onUploadError",
                                fileId |-> EmptyString,
                                timestamp |-> puts[i].timestamp,
                                before |-> uploadedFileId]
            /\ UNCHANGED << uploadedFileId, selectedFile >>
  /\ isUploading' = FALSE
  /\ lastOp' = "uploadResponse"
  /\ lastFile' = NoFile
  /\ UNCHANGED now
  /\ UNCHANGED << viewerVars, apiVars, renderVars >>

\* handleUpload after its await: the try block on a 2xx response (with the
\* wrapper's handleUploadSuccess), the catch block otherwise, then finally
HandleUploadResponse(i, outcome) ==
  /\ i \in 1..Len(puts)
  /\ puts' = RemoveAt(puts, i)
  /\ IF outcome = "ok"
       THEN LET fileId == RemoveFirst(puts[i].filename,
                                      <<".">> \o puts[i].fileExtension)
            IN /\ uploadStatus' = "success"
               /\ uploadMessage' = "Email uploaded successfully! Processing will begin automatically."
               /\ uploadedFileId' = fileId
               /\ selectedFile' = NoFile
               /\ lastCallback' = [outcome |-> outcome,
                                   callback |-> "onUploadSuccess",
                                   fileId |-> fileId,
                                   timestamp |-> puts[i].timestamp,
                                   before |-> uploadedFileId]
       ELSE /\ uploadStatus' = "error"
            /\ uploadMessage' = IF outcome = "notOk" THEN "Upload failed: 403"
                                ELSE "Failed to fetch"
            /\ lastCallback' = [outcome |-> outcome,
                                callback |-> "onUploadError",
                                fileId |-> EmptyString,
                                timestamp |-> puts[i].timestamp,
                                before |-> uploadedFileId]
            /\ UNCHANGED << uploadedFileId, selectedFile >>
  /\ isUploading' = FALSE
  /\ lastOp' = "uploadResponse"
  /\ lastFile' = NoFile
  /\ UNCHANGED now
  /\ UNCHANGED << viewerVars, apiVars, renderVars >>

\* time passes: Date.now() grows
Advance ==
  /\ now < MaxNow
  /\ now' = now + 1
  /\ lastOp' = "advance"
  /\ lastFile' = NoFile
  /\ lastCallback' = NoUpload
  /\ UNCHANGED << isUploading, uploadStatus, uploadMessage, selectedFile,
                  uploadedFileId, puts >>
  /\ UNCHANGED << viewerVars, apiVars, renderVars >>

\* the text of each message a log event may carry
MessageText ==
  [m \in Messages |->
     IF m = "a"
       THEN <<"e","m","a","i","l","-","1"," ","E","M","A","I","L","-","2">>
       ELSE <<"x"," ","e","m","a","i","l","-","2">>]

\* the emailId prop the wrapper hands to the viewer: uploadedFileId ||
\* undefined, the empty tuple standing for null and for undefined
emailId == uploadedFileId

\* filteredLogs that compares without regard to case
filteredLogs_IgnoreCase ==
  IF emailId # EmptyString
    THEN SelectSeq(logs, LAMBDA log : Includes(ToLowerCase(MessageText[log.message]),
                                               ToLowerCase(emailId)))
  ELSE logs

\* const filteredLogs = emailId ? logs.filter(...) : logs
filteredLogs ==
  IF emailId # EmptyString
    THEN SelectSeq(logs, LAMBDA log : Includes(MessageText[log.message], emailId))
  ELSE logs

(***************************************************************************)
(* The dashboard (ApiResultsViewer).                                       *)
(***************************************************************************)
MaxFeedback == 2    \* feedback POST requests outstanding at once

\* what the POST /suppliers/suggest can end in: a 2xx response whose body
\* has success and suggestions, a 2xx response without them, another
\* response, a rejection
SuggestOutcomes ==
  { [kind |-> "ok", suggestions |-> << >>],
    [kind |-> "ok", suggestions |-> << "S1" >>],
    [kind |-> "noSuccess", suggestions |-> << >>],
    [kind |-> "notOk", suggestions |-> << >>],
    [kind |-> "reject", suggestions |-> << >>] }

\* what the GET of one test email yields: null for a response that is not
\* 2xx, else a body without matches or with the match of supplier S1
MatchData == {"null", "empty", "matches"}

\* what the three GETs can end in together: a body for at most one of them
\* and null for the others, or a rejection of one of them
MatchOutcomes ==
  { [kind |-> "results", data |-> d] :
      d \in {f \in [TEST_EMAILS -> MatchData] :
               Cardinality({e \in TEST_EMAILS : f[e] # "null"}) <= 1} }
    \cup { [kind |-> "reject", data |-> [e \in TEST_EMAILS |-> "null"]] }

\* what the POST /suppliers/feedback can end in: a 2xx response with the
\* feedback id, a 2xx response whose body has none, another response, a
\* rejection
FeedbackOutcomes == {"ok", "okBadBody", "notOk", "reject"}

\* the lines of fetchAllData after its await, run once both fetches of
\* call c are over
FetchAllDataDone(c, calls) ==
  IF calls[c].suggest = "done" /\ calls[c].matches = "done"
    THEN /\ dataLoaded' = TRUE
         /\ lastFetch' = now
         /\ apiCalls' = RemoveAt(calls, c)
    ELSE /\ UNCHANGED << dataLoaded, lastFetch >>
         /\ apiCalls' = calls

\* fetchAllData up to its await: fetchSupplierSuggestions and
\* fetchEmailMatches up to theirs
FetchAllData ==
  /\ Len(apiCalls) < MaxInFlight
  /\ apiIsLoading' = TRUE
  /\ apiError' = NoError
  /\ apiCalls' = Append(apiCalls, [suggest |-> "pending", matches |-> "pending"])
  /\ lastAlert' = NoAlert
  /\ lastFeedback' = "none"
  /\ lastSuggest' = "none"
  /\ UNCHANGED << suppliers, emailMatches, lastFetch, dataLoaded, activeTab,
                  feedbacks >>
  /\ UNCHANGED << viewerVars, uploadVars, renderVars >>

\* the effect of the first render
ApiMountEffect ==
  /\ ~apiEffect
  /\ apiEffect' = TRUE
  /\ FetchAllData
  /\ lastOp' = "apiMount"

\* the Refresh All Data button, disabled={isLoading}; the effect of the
\* first render runs before any event is handled
RefreshAllData ==
  /\ apiEffect
  /\ ~apiIsLoading
  /\ FetchAllData
  /\ lastOp' = "refreshAll"
  /\ UNCHANGED apiEffect

\* fetchSupplierSuggestions after its await, then fetchAllData if both
\* fetches are over
SuggestResponse(c, outcome) ==
  /\ c \in 1..Len(apiCalls)
  /\ apiCalls[c].suggest = "pending"
  /\ suppliers' = IF outcome.kind = "ok" THEN outcome.suggestions
                  ELSE suppliers
  /\ apiIsLoading' = FALSE
  /\ FetchAllDataDone(c, [apiCalls EXCEPT ![c].suggest = "done"])
  /\ lastOp' = "suggestResponse"
  /\ lastAlert' = NoAlert
  /\ lastFeedback' = "none"
  /\ lastSuggest' = outcome.kind
  /\ UNCHANGED << emailMatches, apiError, activeTab, feedbacks, apiEffect >>
  /\ UNCHANGED << viewerVars, uploadVars, renderVars >>

\* fetchEmailMatches after its await, then fetchAllData if both fetches
\* are over
MatchesResponse(c, outcome) ==
  /\ c \in 1..Len(apiCalls)
  /\ apiCalls[c].matches = "pending"
  /\ emailMatches' = IF outcome.kind = "results" THEN outcome.data
                     ELSE emailMatches
  /\ FetchAllDataDone(c, [apiCalls EXCEPT ![c].matches = "done"])
  /\ apiIsLoading' = IF apiCalls[c].suggest = "done" THEN FALSE
                     ELSE apiIsLoading
  /\ lastOp' = "matchesResponse"
  /\ lastAlert' = NoAlert
  /\ lastFeedback' = "none"
  /\ lastSuggest' = "none"
  /\ UNCHANGED << suppliers, apiError, activeTab, feedbacks, apiEffect >>
  /\ UNCHANGED << viewerVars, uploadVars, renderVars >>

\* the three tab buttons
SetActiveTab(tab) ==
  /\ apiEffect
  /\ activeTab' = tab
  /\ lastOp' = "setTab"
  /\ lastAlert' = NoAlert
  /\ lastFeedback' = "none"
  /\ lastSuggest' = "none"
  /\ UNCHANGED << suppliers, emailMatches, apiIsLoading, apiError, lastFetch,
                  dataLoaded, apiCalls, feedbacks, apiEffect >>
  /\ UNCHANGED << viewerVars, uploadVars, renderVars >>

\* the Test Feedback button of a match: submitFeedback up to its await
SubmitFeedback(e) ==
  /\ activeTab = "matches"
  /\ emailMatches[e] = "matches"
  /\ Len(feedbacks) < MaxFeedback
  /\ feedbacks' = Append(feedbacks, [emailId |-> e, supplierId |-> "S1"])
  /\ lastOp' = "submitFeedback"
  /\ lastAlert' = NoAlert
  /\ lastFeedback' = "none"
  /\ lastSuggest' = "none"
  /\ UNCHANGED << suppliers, emailMatches, apiIsLoading, apiError, lastFetch,
                  dataLoaded, activeTab, apiCalls, apiEffect >>
  /\ UNCHANGED << viewerVars, uploadVars, renderVars >>

\* submitFeedback after its await: the alert it shows, if any
FeedbackAlert(outcome) ==
  IF outcome = "ok" THEN "Feedback submitted successfully!"
  ELSE IF outcome = "notOk" THEN NoAlert
  ELSE "Failed to submit feedback"

\* submitFeedback after its await
FeedbackResponse(i, outcome) ==
  /\ i \in 1..Len(feedbacks)
  /\ feedbacks' = RemoveAt(feedbacks, i)
  /\ lastAlert' = FeedbackAlert(outcome)
  /\ lastFeedback' = outcome
  /\ lastSuggest' = "none"
  /\ lastOp' = "feedbackResponse"
  /\ UNCHANGED << suppliers, emailMatches, apiIsLoading, apiError, lastFetch,
                  dataLoaded, activeTab, apiCalls, apiEffect >>
  /\ UNCHANGED << viewerVars, uploadVars, renderVars >>

(***************************************************************************)
(* Rendering a log line: formatLogMessage.                                 *)
(***************************************************************************)
MaxWords == 2       \* words in the message of a rendered log line

\* the words a message is made of
Words ==
  { <<"E","R","R","O","R">>, <<"E","r","r","o","r">>, <<"W","A","R","N">>,
    <<"W","a","r","n","i","n","g">>, <<"I","N","F","O">>,
    <<"S","T","A","R","T">>, <<"E","N","D">>, <<"e","r","r","o","r">>,
    <<"W","a","r","n">>, <<"x">> }

RECURSIVE Concat(_)
Concat(ws) == IF ws = << >> THEN << >> ELSE Head(ws) \o Concat(Tail(ws))

\* the messages a rendered log line may carry
FormatMessages == {Concat(ws) : ws \in SeqsUpTo(Words, MaxWords)}

\* formatLogMessage that tests the info words first
formatLogMessage_InfoFirst(message) ==
  IF \/ Includes(message, <<"I","N","F","O">>)
     \/ Includes(message, <<"S","T","A","R","T">>)
     \/ Includes(message, <<"E","N","D">>)
    THEN [type |-> "info", message |-> message]
  ELSE IF \/ Includes(message, <<"E","R","R","O","R">>)
          \/ Includes(message, <<"E","r","r","o","r">>)
    THEN [type |-> "error", message |-> message]
  ELSE IF \/ Includes(message, <<"W","A","R","N">>)
          \/ Includes(message, <<"W","a","r","n","i","n","g">>)
    THEN [type |-> "warning", message |-> message]
  ELSE [type |-> "default", message |-> message]

\* formatLogMessage
formatLogMessage(message) ==
  IF \/ Includes(message, <<"E","R","R","O","R">>)
     \/ Includes(message, <<"E","r","r","o","r">>)
    THEN [type |-> "error", message |-> message]
  ELSE IF \/ Includes(message, <<"W","A","R","N">>)
          \/ Includes(message, <<"W","a","r","n","i","n","g">>)
    THEN [type |-> "warning", message |-> message]
  ELSE IF \/ Includes(message, <<"I","N","F","O">>)
          \/ Includes(message, <<"S","T","A","R","T">>)
          \/ Includes(message, <<"E","N","D">>)
    THEN [type |-> "info", message |-> message]
  ELSE [type |-> "default", message |-> message]

\* the render of one log line whose message is message
RenderLog(message) ==
  /\ formatInput' = message
  /\ formatted' = formatLogMessage(message)
  /\ UNCHANGED << viewerVars, uploadVars, apiVars, lastOp >>

Next ==
  \/ InitClient
  \/ FetchLogGroups
  \/ \E names \in GroupResponses : FetchLogGroupsResponse(names)
  \/ FetchLogGroupsFail
  \/ \E i \in 1..MaxInFlight, newLogs \in LogResponses : FetchLogsResponse(i, newLogs)
  \/ \E i \in 1..MaxInFlight : FetchLogsFail(i)
  \/ ToggleStreaming
  \/ Tick
  \/ Unmount
  \/ \E value \in GroupNames \cup {EmptyString} : SelectLogGroup(value)
  \/ ToggleShowAllGroups
  \/ Refresh
  \/ ClearLogs

Spec == Init /\ [][Next]_vars


(***************************************************************************)
(* Log group discovery on its own, over a wider choice of group names.     *)
(***************************************************************************)
\* names of Lambda log groups: two that match priority keywords, one that
\* is relevant without matching any, one that is not relevant
DiscoveryNames ==
  GroupNames \cup
  { LambdaPrefix \o <<"E","m","a","i","l","P","r","o","c","e","s","s","o","r">>,
    LambdaPrefix \o <<"s","u","p","p","l","i","e","r","-","m","a","t","c","h","e","r">> }

DiscoveryResponses ==
  {s \in SeqsUpTo(DiscoveryNames, MaxGroups) : Cardinality(Range(s)) = Len(s)}

NextDiscovery ==
  \/ InitClient
  \/ FetchLogGroups
  \/ \E names \in DiscoveryResponses : FetchLogGroupsResponse(names)
  \/ FetchLogGroupsFail
  \/ \E value \in DiscoveryNames \cup {EmptyString} : SelectLogGroup(value)
  \/ ToggleShowAllGroups
  \/ Unmount

SpecDiscovery == Init /\ [][NextDiscovery]_vars

(***************************************************************************)
(* The page of the wrapper: the upload form beside the log viewer, whose   *)
(* logs are fetched by the Refresh button.                                 *)
(***************************************************************************)
NextUpload ==
  \/ \E file \in Files : HandleFileSelect(file)
  \/ \E file \in Files : HandleDrop(file)
  \/ RemoveFile
  \/ HandleUpload
  \/ \E outcome \in PutOutcomes : HandleUploadResponse(1, outcome)
  \/ Advance
  \/ InitClient
  \/ FetchLogGroups
  \/ \E names \in GroupResponses : FetchLogGroupsResponse(names)
  \/ Refresh
  \/ \E newLogs \in LogResponses : FetchLogsResponse(1, newLogs)
  \/ ClearLogs

SpecUpload == Init /\ [][NextUpload]_vars

(***************************************************************************)
(* The dashboard alone.                                                    *)
(***************************************************************************)
NextDashboard ==
  \/ ApiMountEffect
  \/ RefreshAllData
  \/ \E c \in 1..MaxInFlight, outcome \in SuggestOutcomes : SuggestResponse(c, outcome)
  \/ \E c \in 1..MaxInFlight, outcome \in MatchOutcomes : MatchesResponse(c, outcome)
  \/ \E tab \in {"suggestions", "matches", "feedback"} : SetActiveTab(tab)
  \/ \E e \in TEST_EMAILS : SubmitFeedback(e)
  \/ \E i \in 1..MaxFeedback, outcome \in FeedbackOutcomes : FeedbackResponse(i, outcome)

SpecDashboard == Init /\ [][NextDashboard]_vars

(***************************************************************************)
(* The rendering of log lines alone.                                       *)
(***************************************************************************)
NextFormat == \E message \in FormatMessages : RenderLog(message)

SpecFormat == Init /\ [][NextFormat]_vars




(***************************************************************************)
(* Properties.                                                             *)
(***************************************************************************)
SameIdentity(a, b) == a.timestamp = b.timestamp /\ a.message = b.message

NonDecreasing(s) ==
  \A i, j \in 1..Len(s) : i < j => s[i].timestamp <= s[j].timestamp

\* C1: at most one log fetch request is outstanding in every reachable
\* state; a tick or refresh during a fetch starts no request.
C1_AtMostOneFetchOutstanding == Len(inflight) <= 1

\* C2: a manual refresh triggered while a log fetch is in flight initiates
\* no further request.
C2_RefreshInFlightIsNoOp ==
  [][(lastOp' = "refresh" /\ Len(inflight) > 0)
       => Len(inflight') = Len(inflight)]_vars

\* C3: in every reachable state the accumulated logs hold no two records
\* with the same (timestamp, message).
C3_NoDuplicates ==
  \A i, j \in 1..Len(logs) : i # j => ~SameIdentity(logs[i], logs[j])

\* C4: after every merge, append-mode or replace-mode, the accumulated logs
\* are non-decreasing by timestamp.
C4_SortedAfterMerge == lastOp = "merged" => NonDecreasing(logs)

C4_Witness ==
  /\ lastOp = "merged"
  /\ lastReq.append
  /\ Len(lastResp) = 2
  /\ lastResp[1].timestamp > lastResp[2].timestamp
  /\ Len(logs) >= 3

\* C5: append-mode merge is idempotent: merging the response just merged
\* once more gives the same accumulated sequence, records and order.
C5_AppendIdempotent ==
  (lastOp = "merged" /\ lastReq.append) => AppendMerge(logs, lastResp) = logs

C5_Witness ==
  /\ lastOp = "merged"
  /\ lastReq.append
  /\ Len(lastResp) = 2
  /\ lastResp[1] # lastResp[2]
  /\ Len(logs) > 2

\* C6: a log fetch whose call fails changes neither the accumulated logs
\* nor the selected group, at the step that issues it and at the step that
\* handles the failure, and the failure sets a non-empty error message.
C6_FailedFetchKeepsLogs ==
  [][/\ lastOp' \in {"refresh", "start", "tick", "fetchFail"}
        => (logs' = logs /\ selectedLogGroup' = selectedLogGroup)
     /\ lastOp' = "fetchFail" => error' # NoError]_vars

C6_Witness ==
  /\ lastOp = "fetchFail"
  /\ logs # << >>
  /\ error = "Failed to fetch logs"

\* C7: starting streaming issues one fetch at once and every tick of the
\* armed interval issues one more; ticks occur only while streaming, and
\* once streaming is stopped no interval is armed until the next start.
C7_StreamingLifecycle ==
  /\ lastOp = "start" => (lastReq # NoReq /\ lastReq.origin = "start" /\ isStreaming)
  /\ lastOp = "tick" => (lastReq # NoReq /\ lastReq.origin = "tick" /\ isStreaming)
  /\ lastOp \in {"start", "tick"} =>
       (Len(inflight) > 0 /\ inflight[Len(inflight)] = lastReq)
  /\ ~isStreaming => timers = {}

C7_Witness ==
  /\ lastOp = "stop"
  /\ ~isStreaming
  /\ timers = {}
  /\ Len(inflight) > 0
  /\ inflight[1].origin = "tick"

\* C8 as claimed: merging the response of the fetch issued by the start
\* action keeps every record the accumulated logs held.
C8_StartFetchKeepsRecords ==
  [][(lastOp' = "merged" /\ lastReq'.origin = "start")
       => \A i \in 1..Len(logs) : \E j \in 1..Len(logs') : logs'[j] = logs[i]]_vars

\* C8 as amended: the fetch issued by the start action is a replace-mode
\* fetch; when its response is merged the accumulated logs are exactly the
\* records of that response, in timestamp order.
C8_StartFetchReplaces ==
  (lastOp = "merged" /\ lastReq.origin = "start") =>
    /\ ~lastReq.append
    /\ Len(logs) = Len(lastResp)
    /\ \A e \in LogEvents :
         Cardinality({i \in 1..Len(logs) : logs[i] = e})
           = Cardinality({i \in 1..Len(lastResp) : lastResp[i] = e})
    /\ NonDecreasing(logs)

C8_Witness ==
  /\ lastOp = "merged"
  /\ lastReq.origin = "start"
  /\ Len(lastResp) = 1
  /\ isStreaming

\* C9: a fetch failure handled while streaming is recorded in the error
\* message, leaves the session streaming and its interval armed, and the
\* armed interval's next tick passes the guard of fetchLogs.
C9_ErrorKeepsStreaming ==
  [][(lastOp' = "fetchFail" /\ isStreaming)
       => /\ isStreaming'
          /\ error' # NoError
          /\ timers' = timers
          /\ timers' # {}
          /\ intervalRef' \in {t.id : t \in timers'}
          /\ \A t \in timers' : t.client /\ t.selectedLogGroup # EmptyString]_vars

C9_Witness ==
  /\ lastOp = "fetchFail"
  /\ isStreaming
  /\ lastReq.origin = "tick"
  /\ timers # {}
  /\ error # NoError

\* C10: unmounting disarms the interval although the stop action was never
\* invoked; after unmount no interval is armed and no tick issues a fetch.
C10_UnmountDisarmsTimer == ~mounted => (timers = {} /\ lastOp # "tick")

C10_Witness ==
  /\ ~mounted
  /\ lastOp = "unmount"
  /\ isStreaming
  /\ intervalRef # 0


NoDuplicates(s) ==
  \A i, j \in 1..Len(s) : i # j => ~SameIdentity(s[i], s[j])

MatchesPriority(group, p) ==
  Includes(ToLowerCase(group.displayName), priorityOrder[p])

\* sub occurs in s, character by character
Contains(s, sub) ==
  \E i \in 0..Len(s) :
    /\ i + Len(sub) <= Len(s)
    /\ \A k \in 1..Len(sub) : s[i + k] = sub[k]

\* C11: the displayed logs are the accumulated logs whose message contains
\* the uploaded file's identifier with the same case, in accumulated order;
\* without an identifier they are the accumulated logs.
C11_Projection ==
  IF uploadedFileId = EmptyString THEN filteredLogs = logs
  ELSE LET kept == {i \in 1..Len(logs) :
                      Contains(MessageText[logs[i].message], uploadedFileId)}
       IN /\ Len(filteredLogs) = Cardinality(kept)
          /\ \A i \in kept :
               filteredLogs[Cardinality({j \in kept : j <= i})] = logs[i]

C11_Witness ==
  /\ uploadedFileId # EmptyString
  /\ Len(logs) = 2
  /\ filteredLogs = << logs[2] >>
  /\ Contains(ToLowerCase(MessageText[logs[1].message]), uploadedFileId)

\* the name has none of the three extensions or the size is over 10 MiB
IsInvalidFile(file) ==
  \/ \A ext \in {EmlExtension, MsgExtension, TxtExtension} :
       \/ Len(file.name) < Len(ext)
       \/ \E k \in 1..Len(ext) :
            file.name[Len(file.name) - Len(ext) + k] # ext[k]
  \/ file.size > 10485760

\* C12: an invalid file handed to the picker or dropped leaves an error
\* message, is not the selected file and is the body of no PUT request.
C12_InvalidFileRejected ==
  /\ (lastOp \in {"fileSelect", "drop"} /\ IsInvalidFile(lastFile)) =>
        (uploadStatus = "error" /\ uploadMessage # "")
  /\ selectedFile # NoFile => ~IsInvalidFile(selectedFile)
  /\ \A i \in 1..Len(puts) : ~IsInvalidFile(puts[i].body)

C12_Witness ==
  /\ lastOp = "drop"
  /\ lastFile.size > 10485760
  /\ selectedFile # NoFile
  /\ Len(puts) = 1

\* C13: the success callback runs, with email-<timestamp>, exactly when the
\* PUT response is 2xx; otherwise the error callback runs, the status becomes
\* error and the wrapper's uploadedFileId keeps its value.
C13_UploadCallbacks ==
  lastOp = "uploadResponse" =>
    IF lastCallback.outcome = "ok"
      THEN /\ lastCallback.callback = "onUploadSuccess"
           /\ lastCallback.fileId =
                <<"e","m","a","i","l","-">> \o NumberToString(lastCallback.timestamp)
           /\ uploadedFileId = lastCallback.fileId
           /\ uploadStatus = "success"
      ELSE /\ lastCallback.callback = "onUploadError"
           /\ uploadStatus = "error"
           /\ uploadedFileId = lastCallback.before
           /\ filteredLogs = IF lastCallback.before = EmptyString THEN logs
                             ELSE SelectSeq(logs, LAMBDA log :
                                    Contains(MessageText[log.message],
                                             lastCallback.before))

C13_Witness ==
  /\ lastOp = "uploadResponse"
  /\ lastCallback.outcome = "notOk"
  /\ lastCallback.before # EmptyString
  /\ lastCallback.timestamp = 2
  /\ uploadedFileId = <<"e","m","a","i","l","-","1">>
  /\ logs # << >>

\* C14: after a successful discovery the filtered groups are the relevant
\* ones; the selected group is the first filtered group containing the
\* earliest priority keyword that any filtered group contains, else the
\* first filtered group; with no filtered group the selection stays empty
\* and the diagnostic message is set.
C14_AutoSelection ==
  (lastOp = "groupsResponse" /\ mounted) =>
    LET hits == {h \in (1..Len(priorityOrder)) \X (1..Len(logGroups)) :
                   MatchesPriority(logGroups[h[2]], h[1])}
    IN /\ \A i \in 1..Len(logGroups) :
            /\ IsEmailParsingGroup(logGroups[i])
            /\ \E j \in 1..Len(allLogGroups) : allLogGroups[j] = logGroups[i]
       /\ Len(logGroups) =
            Cardinality({j \in 1..Len(allLogGroups) :
                           IsEmailParsingGroup(allLogGroups[j])})
       /\ IF logGroups = << >>
            THEN /\ selectedLogGroup = EmptyString
                 /\ error = "No email parsing log groups found"
            ELSE \E i \in 1..Len(logGroups) :
                   /\ logGroups[i].logGroupName = selectedLogGroup
                   /\ IF hits = {} THEN i = 1
                      ELSE \E p \in 1..Len(priorityOrder) :
                             /\ << p, i >> \in hits
                             /\ \A h \in hits :
                                  h[1] > p \/ (h[1] = p /\ h[2] >= i)

C14_Witness ==
  /\ lastOp = "groupsResponse"
  /\ mounted
  /\ Len(logGroups) = 2
  /\ selectedLogGroup = logGroups[2].logGroupName
  /\ \E p \in 1..Len(priorityOrder) : MatchesPriority(logGroups[1], p)

\* C15: once the discovery call has failed no group is selected, the error
\* message is set, the discovery request is not issued again, and no log
\* fetch request is issued or outstanding.
C15_DiscoveryFailure ==
  (\/ lastOp = "groupsFail"
   \/ groupsReq = "failed"
   \/ error = "Failed to fetch log groups")
    => /\ groupsReq = "failed"
       /\ selectedLogGroup = EmptyString
       /\ inflight = << >>
       /\ timers = {}
       /\ ~isLoading
       /\ mounted => error = "Failed to fetch log groups"

C15_Witness ==
  /\ groupsReq = "failed"
  /\ mounted
  /\ lastOp = "clear"
  /\ error = "Failed to fetch log groups"

\* C16: in the state after a failed discovery some action is enabled that
\* issues the discovery request again.
C16_RetryAvailable ==
  (groupsReq = "failed" /\ mounted) => ENABLED (Next /\ groupsReq' = "pending")

\* C17: immediately after the selected group is changed the accumulated
\* logs are empty.
C17_GroupChangeClearsLogs == lastOp = "select" => logs = << >>

\* C18: a refresh, start or tick that runs while the selected group is
\* empty issues no request.
C18_NoGroupNoFetch ==
  (lastOp \in {"refresh", "start", "tick"} /\ selectedLogGroup = EmptyString)
    => lastReq = NoReq

\* C19: the response of a streaming fetch that was outstanding when
\* streaming was stopped is still merged, and the accumulated logs are
\* sorted and duplicate-free afterwards.
C19_MergedAfterStop ==
  (lastOp = "merged" /\ ~isStreaming /\ lastReq.origin \in {"start", "tick"})
    => (NonDecreasing(logs) /\ NoDuplicates(logs))

\* C20: a feedback submission that ends in a transport error or in a
\* response that is not 2xx shows a failure message, and the success message
\* is shown after a 2xx response only.
C20_FeedbackFailureShown ==
  lastOp = "feedbackResponse" =>
    /\ lastFeedback \in {"notOk", "reject"} =>
          lastAlert = "Failed to submit feedback"
    /\ lastAlert = "Feedback submitted successfully!" =>
          lastFeedback \in {"ok", "okBadBody"}

\* C21: isLoading is true in every state in which a log fetch request is
\* outstanding.
C21_BusyWhileOutstanding == (mounted /\ inflight # << >>) => isLoading

\* C22: an append-mode merge keeps every record the accumulated logs held
\* and does not shorten them.
C22_AppendOnlyGrows ==
  [][(lastOp' = "merged" /\ lastReq'.append)
       => /\ Len(logs') >= Len(logs)
          /\ \A i \in 1..Len(logs) : \E j \in 1..Len(logs') : logs'[j] = logs[i]]_vars

\* C23: a request issued by a refresh, a start or a tick queries the group
\* that is selected when it is issued.
C23_QueriesSelectedGroup ==
  (lastOp \in {"refresh", "start", "tick"} /\ lastReq # NoReq)
    => lastReq.logGroupName = selectedLogGroup

\* C24: while the form shows the message of a rejected selection the
\* upload action issues no request.
C24_RejectedSelectionBlocksUpload ==
  (/\ uploadStatus = "error"
   /\ uploadMessage \in {"Please select an email file (.eml, .msg, or .txt)",
                         "File size must be less than 10MB"})
    => ~ENABLED HandleUpload

\* C27: before unmount an interval is armed exactly when isStreaming is
\* true, it is the one intervalRef holds, and no second one is armed.
C27_TimerIffStreaming ==
  mounted =>
    /\ isStreaming <=> timers # {}
    /\ Cardinality(timers) <= 1
    /\ \A t \in timers : t.id = intervalRef

C27_Witness ==
  /\ mounted
  /\ isStreaming
  /\ Cardinality(timers) = 1
  /\ lastOp = "select"
  /\ logs # << >>
  /\ \E t \in timers : t.id = intervalRef /\ t.selectedLogGroup # selectedLogGroup

\* C28: whenever isStreaming is true the Start/Stop button accepts the click
\* that stops streaming.
C28_StopAvailable == (mounted /\ isStreaming) => ENABLED ToggleStreaming

\* C29: at most one PUT request is outstanding, isUploading is true exactly
\* while it is, and the step that handles its response clears isUploading.
C29_OneUploadOutstanding ==
  /\ Len(puts) <= 1
  /\ isUploading <=> puts # << >>
  /\ isUploading => ~ENABLED HandleUpload
  /\ lastOp = "uploadResponse" => ~isUploading

C29_Witness ==
  /\ Len(puts) = 1
  /\ isUploading
  /\ lastOp = "drop"
  /\ selectedFile # NoFile
  /\ selectedFile # puts[1].body

\* C25: a rendered message holding ERROR or Error is of type error; else
\* one holding WARN or Warning is of type warning; else one holding INFO,
\* START or END is of type info; else it is of type default; the message is
\* returned as it was.
C25_Classification ==
  LET Has(w) == Contains(formatInput, w)
      isError == Has(<<"E","R","R","O","R">>) \/ Has(<<"E","r","r","o","r">>)
      isWarning == Has(<<"W","A","R","N">>) \/ Has(<<"W","a","r","n","i","n","g">>)
      isInfo == \/ Has(<<"I","N","F","O">>)
                \/ Has(<<"S","T","A","R","T">>)
                \/ Has(<<"E","N","D">>)
  IN /\ formatted.message = formatInput
     /\ formatted.type \in {"error", "warning", "info", "default"}
     /\ formatted.type = "error" <=> isError
     /\ formatted.type = "warning" <=> (isWarning /\ ~isError)
     /\ formatted.type = "info" <=> (isInfo /\ ~isWarning /\ ~isError)

C25_Witness ==
  /\ Contains(formatInput, <<"I","N","F","O">>)
  /\ Contains(formatInput, <<"E","r","r","o","r">>)
  /\ formatted.type = "error"

\* the accumulated logs after the response newLogs of request req is merged
\* into prevLogs
MergedLogs(req, prevLogs, newLogs) ==
  IF req.append THEN AppendMerge(prevLogs, newLogs)
  ELSE ReplaceMerge(prevLogs, newLogs)

\* C26: with two log fetch requests outstanding, the records accumulated
\* once both responses are merged are the same whichever response arrives
\* first.
C26_OrderIndependent ==
  (mounted /\ Len(inflight) = 2) =>
    \A first, second \in LogResponses :
      Range(MergedLogs(inflight[2], MergedLogs(inflight[1], logs, first), second))
        = Range(MergedLogs(inflight[1], MergedLogs(inflight[2], logs, second), first))

\* C30: when the suggestion request of a load ends in a transport error or
\* in a response that is not 2xx, the dashboard's error is set and that
\* load does not mark the data as loaded.
C30_SuggestFailureRecorded ==
  [][(lastOp' = "suggestResponse" /\ lastSuggest' \in {"notOk", "reject"})
       => /\ apiError' # NoError
          /\ ~dataLoaded => ~dataLoaded']_vars

=============================================================================
